---- MODULE Spec2Model ----
(***************************************************************************)
(* Model of the compositional colour-mapping core of tricolore.js:        *)
(* CompositionUtils (closure, perturbation, power scaling),                *)
(* TernaryGeometry (mesh centroids/vertices, nearest centroid, sextants)   *)
(* and ColorMapping (colorMapTricolore, colorMapSextant).                  *)
(*                                                                         *)
(* JavaScript numbers are modelled as exact rationals n/d extended with    *)
(* the IEEE-754 special values: d = 0 encodes NaN (n = 0), +Infinity       *)
(* (n = 1) and -Infinity (n = -1).  Floating-point rounding and the sign   *)
(* of zero are not modelled.  A value that is not a number (null, a        *)
(* string) is JsNull and an absent array slot is Undef.                    *)
(***************************************************************************)
EXTENDS Integers, Sequences, FiniteSets, TLC

----------------------------------------------------------------------------
(* JavaScript number arithmetic                                            *)

Abs(i) == IF i < 0 THEN -i ELSE i

Sgn(i) == IF i < 0 THEN -1 ELSE IF i > 0 THEN 1 ELSE 0

RECURSIVE GCD(_, _)
GCD(a, b) == IF b = 0 THEN a ELSE GCD(b, a % b)

Norm(n, d) ==
  IF d = 0 THEN [n |-> Sgn(n), d |-> 0]
  ELSE LET g == GCD(Abs(n), Abs(d))
       IN  [n |-> Sgn(d) * (n \div g), d |-> Abs(d) \div g]

Rat(n, d) == Norm(n, d)
Num(i)    == [n |-> i, d |-> 1]
Zero      == Num(0)
One       == Num(1)
NaN       == [n |-> 0, d |-> 0]
PosInf    == [n |-> 1, d |-> 0]
NegInf    == [n |-> -1, d |-> 0]
JsNull    == [n |-> 0, d |-> -1]
Undef     == [n |-> 0, d |-> -2]

IsNumber(x) == x.d >= 0
IsNaN(x)    == x.d = 0 /\ x.n = 0
IsFinite(x) == x.d > 0

\* x * y; common factors are cancelled before multiplying (same value)
Mul(x, y) ==
  IF x.d = 0 \/ y.d = 0 THEN Norm(Sgn(x.n) * Sgn(y.n), 0)
  ELSE IF x.n = 0 \/ y.n = 0 THEN [n |-> 0, d |-> 1]
  ELSE LET g1 == GCD(Abs(x.n), y.d)
           g2 == GCD(Abs(y.n), x.d)
       IN  [n |-> (x.n \div g1) * (y.n \div g2), d |-> (x.d \div g2) * (y.d \div g1)]

Recip(x) == IF x.n < 0 THEN [n |-> -x.d, d |-> -x.n] ELSE [n |-> x.d, d |-> x.n]

Div(x, y) == Mul(x, Recip(y))

Add(x, y) ==
  IF x.d = 0 /\ y.d = 0 THEN (IF x.n = y.n THEN x ELSE NaN)
  ELSE IF x.d = 0 THEN x
  ELSE IF y.d = 0 THEN y
  ELSE LET g == GCD(x.d, y.d)
       IN  Norm(x.n * (y.d \div g) + y.n * (x.d \div g), (x.d \div g) * y.d)

Neg(x) == [n |-> -x.n, d |-> x.d]

Sub(x, y) == Add(x, Neg(y))

\* x > y and x < y as JavaScript evaluates them: false when either is NaN
Gt(x, y) ==
  /\ ~IsNaN(x) /\ ~IsNaN(y)
  /\ IF x.d = 0 \/ y.d = 0
     THEN (IF x.d = 0 THEN x.n ELSE 0) > (IF y.d = 0 THEN y.n ELSE 0)
     ELSE x.n * y.d > y.n * x.d

Lt(x, y) == Gt(y, x)

\* Math.pow(x, e) for an integer exponent e >= 0
RECURSIVE Pow(_, _)
Pow(x, e) == IF e = 0 THEN One ELSE Mul(x, Pow(x, e - 1))

\* a % m as JavaScript evaluates it: the result takes the sign of a
JsMod(a, m) == Sgn(a) * (Abs(a) % m)

\* Math.floor(Math.sqrt(i)) for an integer i >= 0
RECURSIVE FloorSqrtFrom(_, _)
FloorSqrtFrom(i, g) == IF (g + 1) * (g + 1) > i THEN g ELSE FloorSqrtFrom(i, g + 1)

FloorSqrt(i) == FloorSqrtFrom(i, 0)

\* Integer square root by Newton's iteration, for i >= 0
RECURSIVE ISqrtFrom(_, _)
ISqrtFrom(i, x) ==
  LET y == (x + i \div x) \div 2
  IN  IF y >= x THEN x ELSE ISqrtFrom(i, y)

ISqrt(i) == IF i = 0 THEN 0 ELSE ISqrtFrom(i, i)

IsSquare(i) == i >= 0 /\ ISqrt(i) * ISqrt(i) = i

(* A value a + b * sqrt(s) with a, b, s numbers: the results of Math.sqrt  *)
(* and of the arithmetic applied to them, kept exact.  b = 0 (and s = 0)   *)
(* for a plain number; NaN is a = NaN.                                     *)
Plain(a) == [a |-> a, b |-> Zero, s |-> Zero]

Surd(a, b, s) ==
  IF IsNaN(a) \/ IsNaN(b) \/ IsNaN(s) THEN Plain(NaN)
  ELSE IF b = Zero \/ s = Zero THEN Plain(a)
  ELSE IF IsFinite(s) /\ IsSquare(s.n) /\ IsSquare(s.d)
       THEN Plain(Add(a, Mul(b, Rat(ISqrt(s.n), ISqrt(s.d)))))
  ELSE [a |-> a, b |-> b, s |-> s]

\* Math.sqrt(x): NaN for NaN and for negative x
Sqrt(x) == IF IsNaN(x) \/ x.n < 0 THEN Plain(NaN) ELSE Surd(Zero, One, x)

SurdIsNaN(x) == IsNaN(x.a)

\* x * r, x / r and x + r for a number r
SMulR(x, r) == IF x.b = Zero THEN Plain(Mul(x.a, r)) ELSE Surd(Mul(x.a, r), Mul(x.b, r), x.s)
SDivR(x, r) == IF x.b = Zero THEN Plain(Div(x.a, r)) ELSE Surd(Div(x.a, r), Div(x.b, r), x.s)
SAddR(x, r) == Surd(Add(x.a, r), x.b, x.s)

\* x * y where both are plain or share the same radicand
SMul(x, y) ==
  IF x.b = Zero THEN SMulR(y, x.a)
  ELSE IF y.b = Zero THEN SMulR(x, y.a)
  ELSE Surd(Add(Mul(x.a, y.a), Mul(Mul(x.b, y.b), x.s)),
            Add(Mul(x.a, y.b), Mul(x.b, y.a)), x.s)

\* x + y, -x and x - y where both are plain or share the same radicand
SAdd(x, y) ==
  IF x.b = Zero THEN SAddR(y, x.a)
  ELSE IF y.b = Zero THEN SAddR(x, y.a)
  ELSE Surd(Add(x.a, y.a), Add(x.b, y.b), x.s)

SNeg(x) == IF x.b = Zero THEN Plain(Neg(x.a)) ELSE Surd(Neg(x.a), Neg(x.b), x.s)

SSub(x, y) == SAdd(x, SNeg(y))

\* x / y where both are plain or share the same radicand:
\* 1 / (a + b*sqrt(s)) = (a - b*sqrt(s)) / (a^2 - b^2 * s)
SDiv(x, y) ==
  IF y.b = Zero THEN SDivR(x, y.a)
  ELSE LET n == Sub(Mul(y.a, y.a), Mul(Mul(y.b, y.b), y.s))
       IN  SMul(x, Surd(Div(y.a, n), Neg(Div(y.b, n)), y.s))

----------------------------------------------------------------------------
(* CompositionUtils                                                        *)

\* The absence-sentinel (null) standing for an invalid composition
Null == << >>

isValidTernary(point) ==
  /\ Len(point) = 3
  /\ \A j \in 1..3 : IsNumber(point[j]) /\ ~IsNaN(point[j])

closePoint(p) ==
  IF ~isValidTernary(p) THEN Null
  ELSE LET sum == Add(Add(p[1], p[2]), p[3])
       IN  <<Div(p[1], sum), Div(p[2], sum), Div(p[3], sum)>>

\* Variant of close that reads the first element at every position
close_firstElement(P) == [i \in 1..Len(P) |-> closePoint(P[1])]

close(P) == [i \in 1..Len(P) |-> closePoint(P[i])]

\* Variant of perturbePoint that multiplies every component by c[0]
perturbePoint_firstWeight(p, c) ==
  IF p = Null THEN Null
  ELSE LET raw == <<Mul(p[1], c[1]), Mul(p[2], c[1]), Mul(p[3], c[1])>>
           sum == Add(Add(Add(Zero, raw[1]), raw[2]), raw[3])
       IN  <<Div(raw[1], sum), Div(raw[2], sum), Div(raw[3], sum)>>

\* One element of perturbe: falsy entries stay null, the others are
\* multiplied component-wise by c and divided by the sum of the products
perturbePoint(p, c) ==
  IF p = Null THEN Null
  ELSE LET raw == <<Mul(p[1], c[1]), Mul(p[2], c[2]), Mul(p[3], c[3])>>
           sum == Add(Add(Add(Zero, raw[1]), raw[2]), raw[3])
       IN  <<Div(raw[1], sum), Div(raw[2], sum), Div(raw[3], sum)>>

perturbe(P, c) == [i \in 1..Len(P) |-> perturbePoint(P[i], c)]

\* One element of powerScale, for an integer exponent scale >= 0
powerScalePoint(p, scale) ==
  IF p = Null THEN Null
  ELSE LET raw == <<Pow(p[1], scale), Pow(p[2], scale), Pow(p[3], scale)>>
           sum == Add(Add(Add(Zero, raw[1]), raw[2]), raw[3])
       IN  <<Div(raw[1], sum), Div(raw[2], sum), Div(raw[3], sum)>>

powerScale(P, scale) == [i \in 1..Len(P) |-> powerScalePoint(P[i], scale)]

LengthError   == "Ternary point must have exactly 3 components"
NegativeError == "Ternary point contains negative values"
SumError      == "Ternary point components must sum to 1"

\* Math.abs(x) > 1e-9: false for NaN, true for an infinite x.  A finite
\* n/d with |n| >= 3 exceeds 1e-9 because d is below 2^31.
AbsGtTolerance(x) ==
  IF IsNaN(x) THEN FALSE
  ELSE IF x.d = 0 THEN TRUE
  ELSE x.n # 0 /\ (Abs(x.n) > 2 \/ Abs(x.n) * 1000000000 > x.d)

\* Variant of validateEntry without the test that skips falsy entries
validateEntry_noSkip(p) ==
  IF Len(p) # 3 THEN LengthError
  ELSE IF \E j \in 1..3 : Lt(p[j], Zero) THEN NegativeError
  ELSE IF AbsGtTolerance(Sub(Add(Add(p[1], p[2]), p[3]), One)) THEN SumError
  ELSE ""

\* The body of the loop of validateTernaryPoints for the entry p: the
\* message of the Error it throws, "" when it throws none
validateEntry(p) ==
  IF p = Null THEN ""
  ELSE IF Len(p) # 3 THEN LengthError
  ELSE IF \E j \in 1..3 : Lt(p[j], Zero) THEN NegativeError
  ELSE IF AbsGtTolerance(Sub(Add(Add(p[1], p[2]), p[3]), One)) THEN SumError
  ELSE ""

\* The loop of validateTernaryPoints from position i on: the message thrown
\* and the entry interpolated into it
RECURSIVE validateFrom(_, _)
validateFrom(P, i) ==
  IF i > Len(P) THEN [err |-> "", arg |-> Null]
  ELSE IF validateEntry(P[i]) # "" THEN [err |-> validateEntry(P[i]), arg |-> P[i]]
  ELSE validateFrom(P, i + 1)

validateTernaryPoints(P) == validateFrom(P, 1)

----------------------------------------------------------------------------
(* TernaryGeometry                                                         *)

\* Centroid number id of the k-row mesh, for an integer k
meshCentroid(k, id) ==
  LET K   == k * k
      g   == FloorSqrt(K - id)
      gsq == g * g
      c1  == Rat(JsMod(-K + id + g * (g + 2) + 1, 2) - 3 * gsq - 3 * id + 3 * K + 1,
                 6 * k)
      c2  == Rat(-(JsMod(-K + gsq + id + 2 * g + 1, 2) + 3 * g - 3 * k + 1), 3 * k)
      c3  == Rat(JsMod(-K + gsq + id + 2 * g + 1, 2) + 3 * gsq + 6 * g + 3 * id
                 - 3 * K + 1, 6 * k)
  IN  [id |-> id, p1 |-> c1, p2 |-> c2, p3 |-> c3]

\* Variant of ternaryMeshCentroids whose loop runs over id = 0 .. K - 1
ternaryMeshCentroids_fromZero(k) == [id \in 1..(k * k) |-> meshCentroid(k, id - 1)]

ternaryMeshCentroids(k) == [id \in 1..(k * k) |-> meshCentroid(k, id)]

\* Variant of meshCellVertices whose position in the row is off by j - 1
meshCellVertices_rowOffset(k, c) ==
  LET j     == k - FloorSqrt(k * k - c.id)
      i     == c.id - (j - 1) * (2 * k - j)
      sign  == IF JsMod(i, 2) = 0 THEN 1 ELSE -1
      term1 == Rat(sign * 2, 3 * k)
      term2 == Rat(sign, 3 * k)
  IN  << [id |-> c.id, vertex |-> 1,
          p1 |-> Sub(c.p1, term1), p2 |-> Add(c.p2, term2), p3 |-> Add(c.p3, term2)],
         [id |-> c.id, vertex |-> 2,
          p1 |-> Add(c.p1, term2), p2 |-> Sub(c.p2, term1), p3 |-> Add(c.p3, term2)],
         [id |-> c.id, vertex |-> 3,
          p1 |-> Add(c.p1, term2), p2 |-> Add(c.p2, term2), p3 |-> Sub(c.p3, term1)] >>

\* The three vertex records of the cell of centroid c in a mesh of k rows
meshCellVertices(k, c) ==
  LET j     == k - FloorSqrt(k * k - c.id)
      i     == c.id - (j - 1) * (2 * k - j + 1)
      sign  == IF JsMod(i, 2) = 0 THEN 1 ELSE -1
      term1 == Rat(sign * 2, 3 * k)
      term2 == Rat(sign, 3 * k)
  IN  << [id |-> c.id, vertex |-> 1,
          p1 |-> Sub(c.p1, term1), p2 |-> Add(c.p2, term2), p3 |-> Add(c.p3, term2)],
         [id |-> c.id, vertex |-> 2,
          p1 |-> Add(c.p1, term2), p2 |-> Sub(c.p2, term1), p3 |-> Add(c.p3, term2)],
         [id |-> c.id, vertex |-> 3,
          p1 |-> Add(c.p1, term2), p2 |-> Add(c.p2, term2), p3 |-> Sub(c.p3, term1)] >>

\* ternaryMeshVertices: three records per centroid, in centroid order
ternaryMeshVertices(centroids) ==
  LET k == FloorSqrt(Len(centroids))
  IN  [n \in 1..(3 * Len(centroids)) |->
         meshCellVertices(k, centroids[((n - 1) \div 3) + 1])[((n - 1) % 3) + 1]]

\* Variant of ternaryDistanceTo without the negation
ternaryDistanceTo_noNegation(p, c) ==
  LET q1 == Sub(p[1], c[1])
      q2 == Sub(p[2], c[2])
      q3 == Sub(p[3], c[3])
  IN  Add(Add(Mul(q2, q3), Mul(q3, q1)), Mul(q1, q2))

ternaryDistanceTo(p, c) ==
  LET q1 == Sub(p[1], c[1])
      q2 == Sub(p[2], c[2])
      q3 == Sub(p[3], c[3])
  IN  Neg(Add(Add(Mul(q2, q3), Mul(q3, q1)), Mul(q1, q2)))

ternaryDistance(p, C) == [n \in 1..Len(C) |-> ternaryDistanceTo(p, C[n])]

\* Math.min of two values: NaN as soon as one of them is NaN
Min2(x, y) == IF IsNaN(x) \/ IsNaN(y) THEN NaN ELSE IF Lt(y, x) THEN y ELSE x

\* Math.min(...ds) over ds[lo..hi]; Math.min() of nothing is +Infinity
RECURSIVE MathMinRange(_, _, _)
MathMinRange(ds, lo, hi) ==
  IF lo > hi THEN PosInf
  ELSE IF lo = hi THEN Min2(PosInf, ds[lo])
  ELSE LET mid == (lo + hi) \div 2
       IN  Min2(MathMinRange(ds, lo, mid), MathMinRange(ds, mid + 1, hi))

MathMin(ds) == MathMinRange(ds, 1, Len(ds))

\* ds.indexOf(m) in 1-based positions, 0 when absent; NaN equals nothing
RECURSIVE IndexOfRange(_, _, _, _)
IndexOfRange(ds, m, lo, hi) ==
  IF lo > hi THEN 0
  ELSE IF lo = hi THEN (IF ~IsNaN(m) /\ ds[lo] = m THEN lo ELSE 0)
  ELSE LET mid  == (lo + hi) \div 2
           left == IndexOfRange(ds, m, lo, mid)
       IN  IF left # 0 THEN left ELSE IndexOfRange(ds, m, mid + 1, hi)

IndexOf(ds, m) == IndexOfRange(ds, m, 1, Len(ds))

\* Variant of ternaryNearestPoint taking the last of the minimal distances
ternaryNearestPoint_lastMinimum(p, C) ==
  IF p = Null THEN Null
  ELSE LET distances == ternaryDistance(p, C)
           minimum   == MathMin(distances)
           hits      == { n \in 1..Len(C) : ~IsNaN(minimum) /\ distances[n] = minimum }
       IN  IF hits = {} THEN Null
           ELSE C[CHOOSE n \in hits : \A m \in hits : m <= n]

\* One element of ternaryNearest; C[-1] (undefined) is falsy like null
ternaryNearestPoint(p, C) ==
  IF p = Null THEN Null
  ELSE LET distances == ternaryDistance(p, C)
           minIndex  == IndexOf(distances, MathMin(distances))
       IN  IF minIndex = 0 THEN Null ELSE C[minIndex]

ternaryNearest(P, C) == [i \in 1..Len(P) |-> ternaryNearestPoint(P[i], C)]

\* [x, y] of a ternary point; y is a multiple of sqrt(3)
ternaryToCartesian(p) ==
  LET x == Mul(Rat(1, 2), Add(Mul(Num(2), p[3]), p[2]))
      y == SMulR(SDivR(Sqrt(Num(3)), Num(2)), p[2])
  IN  <<Plain(x), y>>

\* Variant of cartesianToTernary that does not halve p2 in p3
cartesianToTernary_noHalf(x, y) ==
  LET p2 == SDiv(SMulR(y, Num(2)), Sqrt(Num(3)))
      p3 == SSub(x, p2)
      p1 == SSub(SSub(Plain(One), p2), p3)
  IN  <<p1, p2, p3>>

cartesianToTernary(x, y) ==
  LET p2 == SDiv(SMulR(y, Num(2)), Sqrt(Num(3)))
      p3 == SSub(x, SDivR(p2, Num(2)))
      p1 == SSub(SSub(Plain(One), p2), p3)
  IN  <<p1, p2, p3>>

\* Math.max of two values: NaN as soon as one of them is NaN
Max2(x, y) == IF IsNaN(x) \/ IsNaN(y) THEN NaN ELSE IF Gt(y, x) THEN y ELSE x

\* The forEach of ternaryLimits from position i on, with the limits so far
RECURSIVE limitsFrom(_, _, _, _)
limitsFrom(P, i, lower, upper) ==
  IF i > Len(P) THEN [lower |-> lower, upper |-> upper]
  ELSE limitsFrom(P, i + 1,
                  <<Min2(lower[1], P[i][1]), Min2(lower[2], P[i][2]), Min2(lower[3], P[i][3])>>,
                  <<Max2(upper[1], P[i][1]), Max2(upper[2], P[i][2]), Max2(upper[3], P[i][3])>>)

\* lower starts from [1, 1, 1] and upper from [0, 0, 0]
ternaryLimits(P) == limitsFrom(P, 1, <<One, One, One>>, <<Zero, Zero, Zero>>)

\* The vertex records of one polygon of ternarySextantVertices
sextantRecords(id, points) ==
  [v \in 1..Len(points) |->
     [id |-> id, vertex |-> v, p1 |-> points[v][1], p2 |-> points[v][2], p3 |-> points[v][3]]]

\* Variant of ternarySextantVertices whose sextant 2 ends at a2 instead of a1
ternarySextantVertices_wrongEdge(center) ==
  LET p1 == <<One, Zero, Zero>>
      p2 == <<Zero, One, Zero>>
      p3 == <<Zero, Zero, One>>
      a1 == <<center[1], Sub(One, center[1]), Zero>>
      a2 == <<center[1], Zero, Sub(One, center[1])>>
      b1 == <<Zero, center[2], Sub(One, center[2])>>
      b2 == <<Sub(One, center[2]), center[2], Zero>>
      c1 == <<Sub(One, center[3]), Zero, center[3]>>
      c2 == <<Zero, Sub(One, center[3]), center[3]>>
  IN  sextantRecords(1, <<center, c1, p1, b2, center>>)
        \o sextantRecords(2, <<center, b2, a2, center>>)
        \o sextantRecords(3, <<center, a1, p2, c2, center>>)
        \o sextantRecords(4, <<center, c2, b1, center>>)
        \o sextantRecords(5, <<center, b1, p3, a2, center>>)
        \o sextantRecords(6, <<center, a2, c1, center>>)

ternarySextantVertices(center) ==
  LET p1 == <<One, Zero, Zero>>
      p2 == <<Zero, One, Zero>>
      p3 == <<Zero, Zero, One>>
      a1 == <<center[1], Sub(One, center[1]), Zero>>
      a2 == <<center[1], Zero, Sub(One, center[1])>>
      b1 == <<Zero, center[2], Sub(One, center[2])>>
      b2 == <<Sub(One, center[2]), center[2], Zero>>
      c1 == <<Sub(One, center[3]), Zero, center[3]>>
      c2 == <<Zero, Sub(One, center[3]), center[3]>>
  IN  sextantRecords(1, <<center, c1, p1, b2, center>>)
        \o sextantRecords(2, <<center, b2, a1, center>>)
        \o sextantRecords(3, <<center, a1, p2, c2, center>>)
        \o sextantRecords(4, <<center, c2, b1, center>>)
        \o sextantRecords(5, <<center, b1, p3, a2, center>>)
        \o sextantRecords(6, <<center, a2, c1, center>>)

\* Variant of sextantOf comparing with >= instead of >
sextantOf_notStrict(p, center) ==
  IF p = Null THEN 0
  ELSE LET l1 == ~IsNaN(p[1]) /\ ~Lt(p[1], center[1])
           l2 == ~IsNaN(p[2]) /\ ~Lt(p[2], center[2])
           l3 == ~IsNaN(p[3]) /\ ~Lt(p[3], center[3])
       IN  IF l1 /\ ~l2 /\ ~l3 THEN 1
           ELSE IF l1 /\ l2 /\ ~l3 THEN 2
           ELSE IF ~l1 /\ l2 /\ ~l3 THEN 3
           ELSE IF ~l1 /\ l2 /\ l3 THEN 4
           ELSE IF ~l1 /\ ~l2 /\ l3 THEN 5
           ELSE IF l1 /\ ~l2 /\ l3 THEN 6
           ELSE 0

\* Variant of sextantOf with the ids 2 and 6 exchanged
sextantOf_exchanged(p, center) ==
  IF p = Null THEN 0
  ELSE LET l1 == Gt(p[1], center[1])
           l2 == Gt(p[2], center[2])
           l3 == Gt(p[3], center[3])
       IN  IF l1 /\ ~l2 /\ ~l3 THEN 1
           ELSE IF l1 /\ l2 /\ ~l3 THEN 6
           ELSE IF ~l1 /\ l2 /\ ~l3 THEN 3
           ELSE IF ~l1 /\ l2 /\ l3 THEN 4
           ELSE IF ~l1 /\ ~l2 /\ l3 THEN 5
           ELSE IF l1 /\ ~l2 /\ l3 THEN 2
           ELSE 0

\* One element of ternarySurroundingSextant; 0 stands for the null id
sextantOf(p, center) ==
  IF p = Null THEN 0
  ELSE LET l1 == Gt(p[1], center[1])
           l2 == Gt(p[2], center[2])
           l3 == Gt(p[3], center[3])
       IN  IF l1 /\ ~l2 /\ ~l3 THEN 1
           ELSE IF l1 /\ l2 /\ ~l3 THEN 2
           ELSE IF ~l1 /\ l2 /\ ~l3 THEN 3
           ELSE IF ~l1 /\ l2 /\ l3 THEN 4
           ELSE IF ~l1 /\ ~l2 /\ l3 THEN 5
           ELSE IF l1 /\ ~l2 /\ l3 THEN 6
           ELSE 0

ternarySurroundingSextant(P, center) ==
  [i \in 1..Len(P) |-> sextantOf(P[i], center)]

----------------------------------------------------------------------------
(* ColorMapping                                                            *)

NullNum   == Plain(JsNull)
NullAngle == [k |-> "null", hue |-> Zero, a |-> Zero, b |-> Zero]
NaNAngle  == [k |-> "NaN", hue |-> Zero, a |-> Zero, b |-> Zero]
NullRgb   == [s |-> "null", h |-> NullAngle, c |-> NullNum, l |-> NullNum]

\* A palette entry, i.e. a colour given as a string
Color(str) == [s |-> str, h |-> NullAngle, c |-> NullNum, l |-> NullNum]

(* The sum z of the three complex values C[j] * exp(i * phi[j]), expressed  *)
(* in the frame rotated by hue: z = exp(i * hue) * (A + i * (sqrt(3)/2) * B) *)
(* with A = C1 - (C2 + C3)/2 and B = C2 - C3.  A NaN among C makes both     *)
(* parts of z NaN.  The components of a power-scaled point are finite or    *)
(* NaN for the exponents 1 and 2 (their sum is 0 only if all are 0), so no  *)
(* infinite C reaches this step.                                            *)
mixZ(C) ==
  IF \E j \in 1..3 : ~IsFinite(C[j]) THEN [A |-> NaN, B |-> NaN]
  ELSE [A |-> Sub(C[1], Div(Add(C[2], C[3]), Num(2))), B |-> Sub(C[2], C[3])]

(* h = (atan2(z.im, z.re) * 180 / PI + 360) % 360, kept as the pair of the  *)
(* rotation hue and the direction of (A, B); atan2(0, 0) = 0 gives h = 0.   *)
mixHue(z, hue) ==
  IF IsNaN(z.A) \/ IsNaN(z.B) THEN NaNAngle
  ELSE IF z.A = Zero /\ z.B = Zero THEN [k |-> "deg", hue |-> Zero, a |-> One, b |-> Zero]
  ELSE LET len == Add(Rat(Abs(z.A.n), z.A.d), Rat(Abs(z.B.n), z.B.d))
       IN  [k |-> "deg", hue |-> hue, a |-> Div(z.A, len), b |-> Div(z.B, len)]

(* c = sqrt(z.re^2 + z.im^2) = sqrt(A^2 + 3/4 * B^2).  With A = u * a and   *)
(* B = u * b for coprime integers a, b and a positive number u this is     *)
(* (u / 2) * sqrt(4 * a^2 + 3 * b^2), which keeps the radicand an integer.  *)
mixChroma(z) ==
  IF IsNaN(z.A) \/ IsNaN(z.B) THEN Plain(NaN)
  ELSE IF z.A = Zero /\ z.B = Zero THEN Plain(Zero)
  ELSE LET D  == (z.A.d \div GCD(z.A.d, z.B.d)) * z.B.d
           ia == z.A.n * (D \div z.A.d)
           ib == z.B.n * (D \div z.B.d)
           g  == GCD(Abs(ia), Abs(ib))
           a  == ia \div g
           b  == ib \div g
       IN  Surd(Zero, Rat(g, 2 * D), Num(4 * a * a + 3 * b * b))

(* hclToHex: "#NaNNaNNaN" when a NaN reaches the conversion, otherwise the  *)
(* hex string is a function of (h, c, l) whose value is kept symbolic.      *)
hclToHex(h, c, l) ==
  IF h.k = "NaN" \/ SurdIsNaN(c) \/ SurdIsNaN(l) THEN Color("#NaNNaNNaN")
  ELSE [s |-> "hcl", h |-> h, c |-> c, l |-> l]

\* P[i][j - 1] of a raw input element: undefined beyond its length
RawAt(e, j) == IF j <= Len(e) THEN e[j] ELSE Undef

\* Variant of tricoloreResult that reports the transformed point
tricoloreResult_reportsScaled(raw, notrans, p, hue, chroma, lightness, contrast) ==
  IF p = Null
  THEN [p1 |-> RawAt(raw, 1), p2 |-> RawAt(raw, 2), p3 |-> RawAt(raw, 3),
        h |-> NullAngle, c |-> NullNum, l |-> NullNum, rgb |-> NullRgb]
  ELSE LET C        == <<Mul(p[1], chroma), Mul(p[2], chroma), Mul(p[3], chroma)>>
           z        == mixZ(C)
           h        == mixHue(z, hue)
           c        == mixChroma(z)
           cfactor  == SAddR(SAddR(SDivR(SMulR(c, contrast), chroma), One), Neg(contrast))
           l        == SMulR(cfactor, lightness)
           adjusted == SMul(cfactor, c)
       IN  [p1 |-> p[1], p2 |-> p[2], p3 |-> p[3],
            h |-> h, c |-> adjusted, l |-> l, rgb |-> hclToHex(h, adjusted, l)]

\* The callback of scaled.map in colorMapTricolore, for element i
tricoloreResult(raw, notrans, p, hue, chroma, lightness, contrast) ==
  IF p = Null
  THEN [p1 |-> RawAt(raw, 1), p2 |-> RawAt(raw, 2), p3 |-> RawAt(raw, 3),
        h |-> NullAngle, c |-> NullNum, l |-> NullNum, rgb |-> NullRgb]
  ELSE LET C        == <<Mul(p[1], chroma), Mul(p[2], chroma), Mul(p[3], chroma)>>
           z        == mixZ(C)
           h        == mixHue(z, hue)
           c        == mixChroma(z)
           cfactor  == SAddR(SAddR(SDivR(SMulR(c, contrast), chroma), One), Neg(contrast))
           l        == SMulR(cfactor, lightness)
           adjusted == SMul(cfactor, c)
       IN  [p1 |-> notrans[1], p2 |-> notrans[2], p3 |-> notrans[3],
            h |-> h, c |-> adjusted, l |-> l, rgb |-> hclToHex(h, adjusted, l)]

\* Variant of discretize without the Number.isFinite test
discretize_noFiniteTest(breaks) ==
  IsNumber(breaks) /\ ~IsNaN(breaks) /\ Lt(breaks, Num(100))

\* Number.isFinite(breaks) && breaks < 100
discretize(breaks) == IsNumber(breaks) /\ IsFinite(breaks) /\ Lt(breaks, Num(100))

centroidPoints(k) ==
  LET cs == ternaryMeshCentroids(k)
  IN  [n \in 1..Len(cs) |-> <<cs[n].p1, cs[n].p2, cs[n].p3>>]

\* Variant of colorMapTricolore that perturbs by center, not by its reciprocals
colorMapTricolore_centerNotInverted(P, center, breaks, hue, chroma, lightness, contrast, spread) ==
  LET P_notrans == close(P)
      closed0   == close(P)
      closed    == IF discretize(breaks)
                   THEN ternaryNearest(closed0, centroidPoints(breaks.n))
                   ELSE closed0
      centered  == perturbe(closed, center)
      scaled    == powerScale(centered, spread.n)
  IN  [closed |-> closed,
       scaled |-> scaled,
       result |-> [i \in 1..Len(scaled) |->
                     tricoloreResult(P[i], P_notrans[i], scaled[i],
                                     hue, chroma, lightness, contrast)]]

(* colorMapTricolore with its locals: closed is the local after the         *)
(* discretization step, scaled the input of the colour computation.         *)
colorMapTricolore(P, center, breaks, hue, chroma, lightness, contrast, spread) ==
  LET P_notrans == close(P)
      closed0   == close(P)
      closed    == IF discretize(breaks)
                   THEN ternaryNearest(closed0, centroidPoints(breaks.n))
                   ELSE closed0
      centered  == perturbe(closed, <<Div(One, center[1]), Div(One, center[2]),
                                      Div(One, center[3])>>)
      scaled    == powerScale(centered, spread.n)
  IN  [closed |-> closed,
       scaled |-> scaled,
       result |-> [i \in 1..Len(scaled) |->
                     tricoloreResult(P[i], P_notrans[i], scaled[i],
                                     hue, chroma, lightness, contrast)]]

\* Variant of sextantResult that indexes the palette by the sextant id itself
sextantResult_offByOne(raw, p, sextant, values) ==
  IF p = Null
  THEN [p1 |-> RawAt(raw, 1), p2 |-> RawAt(raw, 2), p3 |-> RawAt(raw, 3),
        sextant |-> 0, rgb |-> NullRgb]
  ELSE [p1 |-> p[1], p2 |-> p[2], p3 |-> p[3], sextant |-> sextant,
        rgb |-> IF sextant # 0 /\ sextant < Len(values)
                THEN values[sextant + 1] ELSE NullRgb]

\* The callback of closed.map in colorMapSextant, for element i
sextantResult(raw, p, sextant, values) ==
  IF p = Null
  THEN [p1 |-> RawAt(raw, 1), p2 |-> RawAt(raw, 2), p3 |-> RawAt(raw, 3),
        sextant |-> 0, rgb |-> NullRgb]
  ELSE [p1 |-> p[1], p2 |-> p[2], p3 |-> p[3], sextant |-> sextant,
        rgb |-> IF sextant # 0 THEN values[sextant] ELSE NullRgb]

PaletteError == "Sextant values array must have exactly 6 elements"

\* Variant of colorMapSextant that only rejects palettes shorter than 6
colorMapSextant_tooShortOnly(P, center, values) ==
  IF Len(values) < 6 THEN [err |-> PaletteError, result |-> << >>]
  ELSE LET closed   == close(P)
           sextants == ternarySurroundingSextant(closed, center)
       IN  [err |-> "",
            result |-> [i \in 1..Len(closed) |->
                          sextantResult(P[i], closed[i], sextants[i], values)]]

\* colorMapSextant: err is the message of the thrown Error, "" when none
colorMapSextant(P, center, values) ==
  IF Len(values) # 6 THEN [err |-> PaletteError, result |-> << >>]
  ELSE LET closed   == close(P)
           sextants == ternarySurroundingSextant(closed, center)
       IN  [err |-> "",
            result |-> [i \in 1..Len(closed) |->
                          sextantResult(P[i], closed[i], sextants[i], values)]]

(* The public functions of index.ts: an option left undefined takes its    *)
(* default before the call is delegated to ColorMapping.                    *)
Default(v, dflt) == IF v = Undef THEN dflt ELSE v

Thirds == <<Rat(1, 3), Rat(1, 3), Rat(1, 3)>>

DefaultBreaks    == 4
DefaultHue       == 80
DefaultChroma    == 140
DefaultLightness == 80
DefaultContrast  == Rat(2, 5)
DefaultSpread    == 1

DefaultValues ==
  <<Color("#FFFF00"), Color("#B3DCC3"), Color("#01A0C6"),
    Color("#B8B3D8"), Color("#F11D8C"), Color("#FFB3B3")>>

tricoloreDetailed(data, center, breaks, hue, chroma, lightness, contrast, spread) ==
  colorMapTricolore(data, center,
                    Default(breaks, Num(DefaultBreaks)),
                    Default(hue, Num(DefaultHue)),
                    Default(chroma, Num(DefaultChroma)),
                    Default(lightness, Num(DefaultLightness)),
                    Default(contrast, DefaultContrast),
                    Default(spread, Num(DefaultSpread)))

tricoloreSextantDetailed(data, center, values) == colorMapSextant(data, center, values)

----------------------------------------------------------------------------
(* Bounded inputs                                                          *)

MaxBatch  == 2   \* longest input batch
GridN     == 8   \* raw grid compositions are the integer triples summing to GridN
MaxBreaks == 3   \* discrete meshes have 1..MaxBreaks rows
MaxMesh   == 6   \* ternaryMeshCentroids is called directly with k in 1..MaxMesh

T(a, b, c) == <<Num(a), Num(b), Num(c)>>

\* Valid compositions, closed or not, with or without zero components
ValidElems ==
  { T(2, 1, 1), <<Rat(1, 2), Rat(3, 10), Rat(1, 5)>>, T(1, 0, 0), T(0, 1, 0),
    T(0, 0, 1), Thirds, T(0, 0, 0) }

\* Triples of numbers with a negative component
NegativeElems == { T(2, -1, 0), T(1, -1, 0) }

\* Elements with a NaN, infinite or non-number component, or the wrong arity
InvalidElems ==
  { <<NaN, One, One>>, <<PosInf, One, One>>, <<One, NegInf, One>>,
    <<JsNull, One, One>>, <<One, One>>, <<One, One, One, One>> }

GridIndex == { xy \in (0..GridN) \X (0..GridN) : xy[1] + xy[2] <= GridN }

GridElem(ab) == T(ab[1], ab[2], GridN - ab[1] - ab[2])

GridElems == { GridElem(ab) : ab \in GridIndex }

SeqsUpTo(S, n) == UNION { [1..m -> S] : m \in 0..n }

Centers == { Thirds, <<Rat(1, 2), Rat(1, 4), Rat(1, 4)>>, <<Rat(1, 6), Rat(1, 3), Rat(1, 2)>> }

DiscreteBreaks   == { Num(k) : k \in 1..MaxBreaks }
ContinuousBreaks == { Num(100), Num(101), PosInf, NegInf, NaN, JsNull }
BreaksSet        == DiscreteBreaks \cup ContinuousBreaks \cup { Undef }

Spreads == { Num(1), Num(2) }

Profiles ==
  { [hue |-> Num(DefaultHue), chroma |-> Num(DefaultChroma),
     lightness |-> Num(DefaultLightness), contrast |-> DefaultContrast],
    [hue |-> Num(0), chroma |-> Num(100), lightness |-> Num(50), contrast |-> Zero],
    [hue |-> Num(200), chroma |-> Num(DefaultChroma),
     lightness |-> Num(DefaultLightness), contrast |-> One] }

Palettes ==
  { DefaultValues,
    SubSeq(DefaultValues, 1, 5),
    Append(DefaultValues, Color("#000000")),
    <<Color("#111111"), Color("#222222"), Color("#333333"), Color("#444444"),
      Color("#555555"), Color("#666666")>>,
    << >> }

----------------------------------------------------------------------------
(* State: the arguments of one call, the operation applied and its outcome *)

VARIABLES P, center, breaks, hue, chroma, lightness, contrast, spread, values,
          candidates, op, out, err, errArg, closed

vars == <<P, center, breaks, hue, chroma, lightness, contrast, spread, values,
          candidates, op, out, err, errArg, closed>>

args == <<P, center, breaks, hue, chroma, lightness, contrast, spread, values,
          candidates>>

\* No call was made yet: no result, no error message (err) and no value
\* interpolated into the message (errArg)
NotCalled ==
  /\ op = "none"
  /\ out = << >>
  /\ err = ""
  /\ errArg = << >>
  /\ closed = << >>

DefaultColours ==
  /\ hue = Num(DefaultHue)
  /\ chroma = Num(DefaultChroma)
  /\ lightness = Num(DefaultLightness)
  /\ contrast = DefaultContrast

AllElems == ValidElems \cup NegativeElems \cup InvalidElems

Profile(pr) ==
  /\ hue = pr.hue
  /\ chroma = pr.chroma
  /\ lightness = pr.lightness
  /\ contrast = pr.contrast

\* The elements the batches of the colour map are made of: compositions
\* that are closed or not, the zero triple, and one invalid element of
\* each kind
BatchElems ==
  { T(2, 1, 1), <<Rat(1, 2), Rat(3, 10), Rat(1, 5)>>, T(0, 0, 0),
    <<NaN, One, One>>, <<PosInf, One, One>>, <<One, One>> }

\* Batches mixing valid and invalid elements, discrete and continuous
InitMixed ==
  /\ P \in SeqsUpTo(BatchElems, MaxBatch)
  /\ center \in { Thirds, <<Rat(1, 2), Rat(1, 4), Rat(1, 4)>> }
  /\ breaks \in { Num(2), PosInf }
  /\ spread = Num(DefaultSpread)
  /\ DefaultColours
  /\ values = DefaultValues
  /\ candidates = << >>
  /\ NotCalled

\* One element under every parameter setting
InitParams ==
  /\ P \in [1..1 -> AllElems]
  /\ center \in Centers
  /\ breaks \in BreaksSet
  /\ spread \in Spreads
  /\ \E pr \in Profiles : Profile(pr)
  /\ values = DefaultValues
  /\ candidates = << >>
  /\ NotCalled

\* Pairs of grid compositions, for the discrete meshes
InitGrid ==
  /\ \E ab \in GridIndex, cd \in GridIndex :
       /\ ab[1] < cd[1] \/ (ab[1] = cd[1] /\ ab[2] <= cd[2])
       /\ P = <<GridElem(ab), GridElem(cd)>>
  /\ center \in { Thirds, <<Rat(1, 2), Rat(1, 4), Rat(1, 4)>> }
  /\ breaks \in DiscreteBreaks
  /\ spread = Num(1)
  /\ DefaultColours
  /\ values = DefaultValues
  /\ candidates = << >>
  /\ NotCalled

\* Valid compositions mapped without contrast, the maximum chroma 0 included
InitContrast ==
  /\ P \in [1..1 -> ValidElems]
  /\ center \in Centers
  /\ breaks \in { Num(2), Num(100), PosInf }
  /\ spread \in Spreads
  /\ hue = Num(DefaultHue)
  /\ chroma \in { Zero, Num(DefaultChroma) }
  /\ lightness \in { Num(DefaultLightness), Num(50) }
  /\ contrast = Zero
  /\ values = DefaultValues
  /\ candidates = << >>
  /\ NotCalled

\* Centers with strictly positive components, closed or not; (7/12,1/3,1/12)
\* is a centroid of the mesh of 4 rows
CenterCompositions ==
  Centers \cup { T(2, 1, 1), T(1, 2, 3), <<Rat(7, 12), Rat(1, 3), Rat(1, 12)>> }

\* The composition equal to the center, under every breaks, spread and
\* colour setting
InitCenter ==
  /\ center \in CenterCompositions
  /\ P = <<center>>
  /\ breaks \in BreaksSet
  /\ spread \in Spreads
  /\ \E pr \in Profiles : Profile(pr)
  /\ values = DefaultValues
  /\ candidates = << >>
  /\ NotCalled

InitTricolore == InitMixed \/ InitParams \/ InitGrid

\* Sextant calls on batches, with the default palette and one of 5 entries
InitSextantMixed ==
  /\ P \in SeqsUpTo(BatchElems, MaxBatch)
  /\ center \in { Thirds, <<Rat(1, 2), Rat(1, 4), Rat(1, 4)>> }
  /\ values \in { DefaultValues, SubSeq(DefaultValues, 1, 5) }
  /\ breaks = Undef
  /\ spread = Num(DefaultSpread)
  /\ DefaultColours
  /\ candidates = << >>
  /\ NotCalled

\* Sextant calls on one element, with every center and palette
InitSextantParams ==
  /\ P \in [1..1 -> AllElems \cup GridElems]
  /\ center \in Centers
  /\ values \in Palettes
  /\ breaks = Undef
  /\ spread = Num(DefaultSpread)
  /\ DefaultColours
  /\ candidates = << >>
  /\ NotCalled

InitSextant == InitSextantMixed \/ InitSextantParams

\* The grid compositions after closure: points a/GridN of the simplex
ClosedGridElems == { closePoint(e) : e \in GridElems }

\* Batches of raw points for the functions of CompositionUtils and
\* TernaryGeometry that are called directly
InitPoints ==
  /\ P \in SeqsUpTo(AllElems, MaxBatch) \cup [1..1 -> GridElems \cup ClosedGridElems]
  /\ center \in Centers
  /\ values = DefaultValues
  /\ breaks = Undef
  /\ spread = Num(DefaultSpread)
  /\ DefaultColours
  /\ candidates = << >>
  /\ NotCalled

\* The centroids of a mesh as points and as candidates of ternaryNearest
InitMesh ==
  /\ breaks \in { Num(k) : k \in 1..MaxMesh }
  /\ P = centroidPoints(breaks.n)
  /\ candidates = P
  /\ center = Thirds
  /\ spread = Num(DefaultSpread)
  /\ DefaultColours
  /\ values = DefaultValues
  /\ NotCalled

\* Candidate lists of ternaryNearest: mesh centroids, the corners, lists
\* with a repeated entry and with unclosed entries
CandidateLists ==
  { centroidPoints(k) : k \in 1..MaxBreaks } \cup
  { <<T(1, 0, 0), T(0, 1, 0), T(0, 0, 1)>>,
    <<T(0, 1, 0), T(1, 0, 0)>>,
    <<Thirds, Thirds, T(1, 0, 0)>>,
    <<T(2, 1, 1), T(1, 1, 2), T(1, 2, 1)>> }

\* Batches of closed points and absence-sentinels
NearestBatches ==
  { << >>, <<Null>> } \cup
  UNION { { <<e>>, <<Null, e>>, <<e, Null>> } : e \in ClosedGridElems }

\* Points and sentinels with a list of candidates
InitNearest ==
  /\ P \in NearestBatches
  /\ candidates \in CandidateLists
  /\ breaks = Undef
  /\ center = Thirds
  /\ spread = Num(DefaultSpread)
  /\ DefaultColours
  /\ values = DefaultValues
  /\ NotCalled

InitGeometry == InitMesh \/ InitNearest

\* Points of perturbe: closed compositions, some with a zero component
PerturbePoints ==
  Centers \cup { T(1, 0, 0), <<Rat(1, 2), Rat(1, 2), Zero>> }

\* Vectors of perturbe: compositions, their reciprocals and a uniform vector
PerturbeVectors ==
  Centers \cup { T(2, 4, 4), T(6, 3, 2), T(1, 1, 1), T(3, 3, 3) }

\* perturbe is called with the vector c held in center
InitPerturbe ==
  /\ P \in { <<Null>> } \cup
           UNION { { <<e>>, <<Null, e>>, <<e, Null>> } : e \in PerturbePoints }
  /\ center \in PerturbeVectors
  /\ breaks = Undef
  /\ spread = Num(DefaultSpread)
  /\ DefaultColours
  /\ values = DefaultValues
  /\ candidates = << >>
  /\ NotCalled

\* Entries of validateTernaryPoints: the sentinel, closed compositions,
\* sums within and beyond the tolerance, negative, infinite and NaN
\* components, and arrays of 2 and 4 components
ValidateElems ==
  { Null, Thirds, T(1, 0, 0), <<Rat(1, 2), Rat(1, 4), Rat(1, 4)>>,
    <<Rat(1, 2), Rat(1, 2), Rat(1, 1000000000)>>,
    <<Rat(1, 2), Rat(1, 2), Rat(1, 500000000)>>,
    T(2, 1, 1), T(0, 0, 0),
    <<Rat(3, 2), Rat(-1, 2), Zero>>, T(-1, 1, 0),
    <<One, One>>, <<Num(-1), One>>, <<Rat(1, 4), Rat(1, 4), Rat(1, 4), Rat(1, 4)>>,
    <<PosInf, Zero, Zero>>, <<NegInf, One, One>>, <<NaN, NaN, NaN>> }

InitValidate ==
  /\ P \in SeqsUpTo(ValidateElems, MaxBatch)
  /\ center = Thirds
  /\ breaks = Undef
  /\ spread = Num(DefaultSpread)
  /\ DefaultColours
  /\ values = DefaultValues
  /\ candidates = << >>
  /\ NotCalled

\* Points converted to cartesian coordinates: the grid points of the
\* simplex, points of the plane p1 + p2 + p3 = 1 outside the triangle, and
\* points off that plane
CartesianPoints ==
  ClosedGridElems
    \cup { <<Rat(3, 2), Rat(-1, 2), Zero>>, T(-1, 1, 1), <<Rat(1, 2), Rat(3, 4), Rat(-1, 4)>>,
            <<Rat(1, 7), Rat(2, 7), Rat(4, 7)>>, T(2, 1, 1), T(0, 0, 0), T(0, 1, 1) }

InitCartesian ==
  /\ P \in { <<p>> : p \in CartesianPoints }
  /\ center = Thirds
  /\ breaks = Undef
  /\ spread = Num(DefaultSpread)
  /\ DefaultColours
  /\ values = DefaultValues
  /\ candidates = << >>
  /\ NotCalled

\* Datasets of ternaryLimits: closed compositions and compositions of
\* counts, with components below, at and above 1
LimitElems ==
  { Thirds, T(1, 0, 0), <<Rat(1, 2), Rat(1, 4), Rat(1, 4)>>, <<Rat(1, 6), Rat(1, 3), Rat(1, 2)>>,
    <<Zero, Rat(3, 4), Rat(1, 4)>>, T(0, 0, 0), T(1, 1, 1), T(2, 1, 1), T(3, 5, 2),
    <<Rat(3, 2), Rat(1, 2), Num(4)>> }

InitLimits ==
  /\ P \in SeqsUpTo(LimitElems, MaxBatch)
  /\ center = Thirds
  /\ breaks = Undef
  /\ spread = Num(DefaultSpread)
  /\ DefaultColours
  /\ values = DefaultValues
  /\ candidates = << >>
  /\ NotCalled

\* Centers of the sextant legend: the closed grid points, strictly inside
\* the simplex or on its boundary
InitSextantGeometry ==
  /\ P \in { <<p>> : p \in ClosedGridElems }
  /\ center \in ClosedGridElems
  /\ values = DefaultValues
  /\ breaks = Undef
  /\ spread = Num(DefaultSpread)
  /\ DefaultColours
  /\ candidates = << >>
  /\ NotCalled

\* Points and candidates of ternaryDistance: closed compositions and
\* compositions of counts, so that pairs with equal and with different
\* component sums occur
DistanceCandidates ==
  { Thirds, T(1, 0, 0), <<Rat(1, 2), Rat(1, 4), Rat(1, 4)>>, <<Zero, Rat(1, 2), Rat(1, 2)>>,
    <<Rat(1, 8), Rat(1, 4), Rat(5, 8)>>, T(2, 1, 1), T(1, 1, 2), T(0, 0, 0),
    GridElem(<<GridN, 0>>), GridElem(<<1, 2>>) }

InitDistance ==
  /\ P \in { <<p>> : p \in ClosedGridElems \cup GridElems \cup { T(2, 1, 1), T(1, 1, 2) } }
  /\ candidates \in [1..2 -> DistanceCandidates]
  /\ center = Thirds
  /\ breaks = Undef
  /\ spread = Num(DefaultSpread)
  /\ DefaultColours
  /\ values = DefaultValues
  /\ NotCalled

Init ==
  \/ InitTricolore \/ InitContrast \/ InitCenter \/ InitSextant \/ InitPoints
  \/ InitGeometry
  \/ InitPerturbe
  \/ InitValidate
  \/ InitCartesian
  \/ InitLimits
  \/ InitSextantGeometry
  \/ InitDistance

----------------------------------------------------------------------------
(* Operations                                                              *)

\* tricoloreDetailed(P, {center, breaks, hue, chroma, lightness, contrast, spread})
TricoloreDetailed ==
  /\ op = "none"
  /\ LET run == tricoloreDetailed(P, center, breaks, hue, chroma, lightness,
                                  contrast, spread)
     IN  /\ out' = run.result
         /\ closed' = run.closed
  /\ op' = "tricolore"
  /\ err' = ""
  /\ errArg' = << >>
  /\ UNCHANGED args

\* tricoloreSextantDetailed(P, {center, values})
TricoloreSextantDetailed ==
  /\ op = "none"
  /\ LET run == tricoloreSextantDetailed(P, center, values)
     IN  /\ out' = run.result
         /\ err' = run.err
  /\ op' = "sextant"
  /\ closed' = << >>
  /\ errArg' = << >>
  /\ UNCHANGED args

\* CompositionUtils.close(P)
Close ==
  /\ op = "none"
  /\ out' = close(P)
  /\ op' = "close"
  /\ err' = ""
  /\ closed' = << >>
  /\ errArg' = << >>
  /\ UNCHANGED args

\* TernaryGeometry.ternarySurroundingSextant(P, center) on triples of numbers
ClassifySextant ==
  /\ op = "none"
  /\ \A i \in 1..Len(P) : Len(P[i]) = 3 /\ \A j \in 1..3 : IsNumber(P[i][j])
  /\ out' = ternarySurroundingSextant(P, center)
  /\ op' = "classify"
  /\ err' = ""
  /\ closed' = << >>
  /\ errArg' = << >>
  /\ UNCHANGED args

\* An absence-sentinel or a triple of finite numbers
IsPointOrNull(p) == p = Null \/ (Len(p) = 3 /\ \A j \in 1..3 : IsFinite(p[j]))

\* TernaryGeometry.ternaryMeshCentroids(k) for a positive integer k = breaks
MeshCentroids ==
  /\ op = "none"
  /\ breaks.d = 1 /\ breaks.n >= 1
  /\ out' = ternaryMeshCentroids(breaks.n)
  /\ op' = "centroids"
  /\ err' = ""
  /\ closed' = << >>
  /\ errArg' = << >>
  /\ UNCHANGED args

\* TernaryGeometry.ternaryNearest(P, candidates) on points and sentinels
Nearest ==
  /\ op = "none"
  /\ { i \in 1..Len(P) : ~IsPointOrNull(P[i]) } = {}
  /\ candidates # << >>
  /\ out' = ternaryNearest(P, candidates)
  /\ op' = "nearest"
  /\ err' = ""
  /\ closed' = << >>
  /\ errArg' = << >>
  /\ UNCHANGED args

\* CompositionUtils.perturbe(P, c) with c = center
Perturbe ==
  /\ op = "none"
  /\ \A i \in 1..Len(P) : IsPointOrNull(P[i])
  /\ out' = perturbe(P, center)
  /\ op' = "perturbe"
  /\ err' = ""
  /\ closed' = << >>
  /\ errArg' = << >>
  /\ UNCHANGED args

\* CompositionUtils.validateTernaryPoints(P)
Validate ==
  /\ op = "none"
  /\ LET run == validateTernaryPoints(P)
     IN  /\ err' = run.err
         /\ errArg' = run.arg
  /\ out' = << >>
  /\ op' = "validate"
  /\ closed' = << >>
  /\ UNCHANGED args

\* TernaryGeometry.ternaryToCartesian(P[1])
ToCartesian ==
  /\ op = "none"
  /\ Len(P) = 1 /\ P[1] # Null /\ Len(P[1]) = 3
  /\ out' = ternaryToCartesian(P[1])
  /\ op' = "toCartesian"
  /\ err' = ""
  /\ errArg' = << >>
  /\ closed' = << >>
  /\ UNCHANGED args

\* TernaryGeometry.cartesianToTernary(x, y) on the coordinates that
\* ternaryToCartesian returned
FromCartesian ==
  /\ op = "toCartesian"
  /\ out' = cartesianToTernary(out[1], out[2])
  /\ op' = "fromCartesian"
  /\ err' = ""
  /\ errArg' = << >>
  /\ closed' = << >>
  /\ UNCHANGED args

\* TernaryGeometry.ternaryLimits(P); out is <<lower, upper>>
Limits ==
  /\ op = "none"
  /\ \A i \in 1..Len(P) : P[i] # Null /\ Len(P[i]) = 3
  /\ LET run == ternaryLimits(P)
     IN  out' = <<run.lower, run.upper>>
  /\ op' = "limits"
  /\ err' = ""
  /\ errArg' = << >>
  /\ closed' = << >>
  /\ UNCHANGED args

\* TernaryGeometry.ternaryMeshVertices(ternaryMeshCentroids(k)), k = breaks
MeshVertices ==
  /\ op = "none"
  /\ breaks.d = 1 /\ breaks.n >= 1
  /\ out' = ternaryMeshVertices(ternaryMeshCentroids(breaks.n))
  /\ op' = "vertices"
  /\ err' = ""
  /\ closed' = << >>
  /\ errArg' = << >>
  /\ UNCHANGED args

\* TernaryGeometry.ternarySextantVertices(center)
SextantVertices ==
  /\ op = "none"
  /\ out' = ternarySextantVertices(center)
  /\ op' = "sextantVertices"
  /\ err' = ""
  /\ closed' = << >>
  /\ errArg' = << >>
  /\ UNCHANGED args

\* TernaryGeometry.ternaryDistance(P[1], candidates)
Distance ==
  /\ op = "none"
  /\ Len(P) = 1 /\ IsPointOrNull(P[1]) /\ P[1] # Null
  /\ out' = ternaryDistance(P[1], candidates)
  /\ op' = "distance"
  /\ err' = ""
  /\ closed' = << >>
  /\ errArg' = << >>
  /\ UNCHANGED args

Next ==
  \/ TricoloreDetailed \/ TricoloreSextantDetailed \/ Close \/ ClassifySextant
  \/ MeshCentroids \/ Nearest
  \/ Perturbe
  \/ Validate
  \/ ToCartesian \/ FromCartesian
  \/ Limits
  \/ MeshVertices
  \/ SextantVertices
  \/ Distance

Spec == Init /\ [][Next]_vars

\* Calls of the continuous/discrete colour map
NextTricolore == TricoloreDetailed

SpecTricolore == InitTricolore /\ [][NextTricolore]_vars

\* Calls of the colour map with contrast = 0
NextContrast == TricoloreDetailed

SpecContrast == InitContrast /\ [][NextContrast]_vars

\* Calls of the colour map on the center itself
NextCenter == TricoloreDetailed

SpecCenter == InitCenter /\ [][NextCenter]_vars

\* Direct calls of the mesh and nearest-candidate functions
NextGeometry == MeshCentroids \/ MeshVertices \/ Nearest

SpecGeometry == InitGeometry /\ [][NextGeometry]_vars

\* Direct calls of perturbe
NextPerturbe == Perturbe

SpecPerturbe == InitPerturbe /\ [][NextPerturbe]_vars

\* Direct calls of validateTernaryPoints
NextValidate == Validate

SpecValidate == InitValidate /\ [][NextValidate]_vars

\* Conversions between ternary and cartesian coordinates
NextCartesian == ToCartesian \/ FromCartesian

SpecCartesian == InitCartesian /\ [][NextCartesian]_vars

\* Direct calls of ternaryLimits
NextLimits == Limits

SpecLimits == InitLimits /\ [][NextLimits]_vars

\* The sextant legend and the classification of points against it
NextSextantGeometry == SextantVertices \/ ClassifySextant

SpecSextantGeometry == InitSextantGeometry /\ [][NextSextantGeometry]_vars

\* Direct calls of ternaryDistance
NextDistance == Distance

SpecDistance == InitDistance /\ [][NextDistance]_vars

\* Calls of the sextant colour map
NextSextant == TricoloreSextantDetailed

SpecSextant == InitSextant /\ [][NextSextant]_vars

\* Direct calls of closure and sextant classification
NextPoints == Close \/ ClassifySextant

SpecPoints == InitPoints /\ [][NextPoints]_vars

\* Batch calls of both colour maps
InitMaps == InitMixed \/ InitSextantMixed

NextMaps == TricoloreDetailed \/ TricoloreSextantDetailed

SpecMaps == InitMaps /\ [][NextMaps]_vars

----------------------------------------------------------------------------
(* Properties                                                              *)

\* An element the specification calls invalid: wrong arity, or a component
\* that is not a finite number
InvalidElement(e) ==
  Len(e) # 3 \/ \E j \in 1..Len(e) : ~(IsNumber(e[j]) /\ IsFinite(e[j]))

\* A valid composition: three finite, non-negative numbers
ValidComposition(e) ==
  Len(e) = 3 /\ \A j \in 1..3 : IsNumber(e[j]) /\ IsFinite(e[j]) /\ e[j].n >= 0

\* A valid composition with a positive sum, i.e. one that has a closure
\* on the simplex
OnSimplex(e) == ValidComposition(e) /\ \E j \in 1..3 : e[j].n > 0

AllColourNull(r) ==
  r.h = NullAngle /\ r.c = NullNum /\ r.l = NullNum /\ r.rgb = NullRgb

SomeColourNull(r) ==
  r.h = NullAngle \/ r.c = NullNum \/ r.l = NullNum \/ r.rgb = NullRgb

(* C1: colorMap raises no error on invalid elements; every element with a   *)
(* non-finite component (NaN, +Infinity, -Infinity) or the wrong arity has  *)
(* h, c, l and rgb all null, in discrete and continuous mode, and no result *)
(* has only some of the four fields null.                                   *)
C1_InvalidElementsAllNull ==
  op = "tricolore" =>
    /\ err = ""
    /\ Len(out) = Len(P)
    /\ \A i \in 1..Len(P) :
         /\ InvalidElement(P[i]) => AllColourNull(out[i])
         /\ SomeColourNull(out[i]) => AllColourNull(out[i])

\* The part of C1 the code satisfies: elements with a NaN or non-number
\* component or the wrong arity get all four fields null
C1_NaNOrArityAllNull ==
  op = "tricolore" =>
    \A i \in 1..Len(P) :
      /\ ~isValidTernary(P[i]) => AllColourNull(out[i])
      /\ SomeColourNull(out[i]) => AllColourNull(out[i])

(* C2: colorMap and sextantColorMap return one result per input element,    *)
(* in input order, and the result at position i equals the result of        *)
(* mapping element i alone with the same parameters.                        *)
C2_PerElementResults ==
  /\ op = "tricolore" =>
       /\ Len(out) = Len(P)
       /\ \A i \in 1..Len(P) :
            <<out[i]>> = tricoloreDetailed(<<P[i]>>, center, breaks, hue, chroma,
                                           lightness, contrast, spread).result
  /\ (op = "sextant" /\ err = "") =>
       /\ Len(out) = Len(P)
       /\ \A i \in 1..Len(P) :
            <<out[i]>> = tricoloreSextantDetailed(<<P[i]>>, center, values).result

\* A batch of two different elements, one valid and one invalid, was mapped
C2_Witness ==
  /\ op \in {"tricolore", "sextant"}
  /\ err = ""
  /\ Len(P) = 2
  /\ Len(out) = 2
  /\ OnSimplex(P[1])
  /\ InvalidElement(P[2])
  /\ out[1].rgb # NullRgb
  /\ out[2].rgb = NullRgb

(* C3: sextantColorMap fails with the palette-length error if and only if   *)
(* values does not have exactly 6 entries, whatever the data (an empty      *)
(* batch included); no results are returned then, and a 6-entry palette     *)
(* never fails.                                                             *)
C3_PaletteLength ==
  op = "sextant" =>
    /\ (err = PaletteError) <=> (Len(values) # 6)
    /\ err # "" => (err = PaletteError /\ out = << >>)
    /\ Len(values) = 6 => (err = "" /\ Len(out) = Len(P))

\* The sextant map was called on an empty batch with a 5-entry palette
C3_Witness ==
  /\ op = "sextant"
  /\ P = << >>
  /\ Len(values) = 5
  /\ err = PaletteError

\* The id of the fixed table for the pattern of strict comparisons
SextantTable(g1, g2, g3) ==
  CASE g1 /\ ~g2 /\ ~g3 -> 1
    [] g1 /\ g2 /\ ~g3  -> 2
    [] ~g1 /\ g2 /\ ~g3 -> 3
    [] ~g1 /\ g2 /\ g3  -> 4
    [] ~g1 /\ ~g2 /\ g3 -> 5
    [] g1 /\ ~g2 /\ g3  -> 6
    [] OTHER            -> 0

\* p[j] strictly greater than c[j], by cross-multiplication of finite values
StrictlyGreater(x, y) ==
  IsFinite(x) /\ IsFinite(y) /\ x.n * y.d > y.n * x.d

(* C4: classifySextant compares each component strictly against the         *)
(* center's and returns the id of the fixed table, the null id for every    *)
(* other pattern; with center (1/3,1/3,1/3) the corners (1,0,0), (0,1,0),   *)
(* (0,0,1) classify as 1, 3, 5 and the center itself as null.               *)
C4_SextantTable ==
  op = "classify" =>
    /\ err = ""
    /\ Len(out) = Len(P)
    /\ \A i \in 1..Len(P) :
         /\ (\A j \in 1..3 : IsFinite(P[i][j])) =>
              out[i] = SextantTable(StrictlyGreater(P[i][1], center[1]),
                                    StrictlyGreater(P[i][2], center[2]),
                                    StrictlyGreater(P[i][3], center[3]))
         /\ center = Thirds =>
              /\ P[i] = T(1, 0, 0) => out[i] = 1
              /\ P[i] = T(0, 1, 0) => out[i] = 3
              /\ P[i] = T(0, 0, 1) => out[i] = 5
              /\ P[i] = Thirds => out[i] = 0

\* A point with a component equal to the center's was classified into a
\* sextant
C4_Witness ==
  /\ op = "classify"
  /\ Len(P) = 1
  /\ \E j \in 1..3 : P[1][j] = center[j]
  /\ out[1] \in 1..6

(* C5: with a 6-entry palette every element of sextant s gets rgb =         *)
(* palette[s-1] (the s-th entry), and rgb is null exactly when the sextant  *)
(* is null; with center (1/3,1/3,1/3) the point (0.5,0.3,0.2) gets sextant  *)
(* 1 and the first palette entry.                                           *)
C5_SextantPalette ==
  (op = "sextant" /\ err = "") =>
    \A i \in 1..Len(P) :
      /\ out[i].sextant \in 1..6 => out[i].rgb = values[out[i].sextant]
      /\ (out[i].rgb = NullRgb) <=> (out[i].sextant = 0)
      /\ (center = Thirds /\ P[i] = <<Rat(1, 2), Rat(3, 10), Rat(1, 5)>>) =>
           (out[i].sextant = 1 /\ out[i].rgb = values[1])

\* Some element was classified into sextant 4 and coloured with a palette
\* other than the default one
C5_Witness ==
  /\ op = "sextant"
  /\ err = ""
  /\ values # DefaultValues
  /\ \E i \in 1..Len(P) : out[i].sextant = 4 /\ out[i].rgb = values[4]

\* |x| <= 1e-9
WithinTolerance(x) ==
  IsFinite(x) /\ (x.n = 0 \/ (Abs(x.n) <= 2 /\ Abs(x.n) * 1000000000 <= x.d))

(* C6: for every valid composition (three finite, non-negative components,  *)
(* (0,0,0) included) closure returns a triple whose components are          *)
(* non-negative and sum to 1 within 1e-9.                                   *)
C6_ClosureOnSimplex ==
  op = "close" =>
    \A i \in 1..Len(P) :
      ValidComposition(P[i]) =>
        /\ out[i] # Null
        /\ \A j \in 1..3 : IsFinite(out[i][j]) /\ out[i][j].n >= 0
        /\ WithinTolerance(Sub(Add(Add(out[i][1], out[i][2]), out[i][3]), One))

\* The part of C6 the code satisfies: valid compositions with a positive sum
C6_ClosureOfPositiveSum ==
  op = "close" =>
    \A i \in 1..Len(P) :
      OnSimplex(P[i]) =>
        /\ out[i] # Null
        /\ \A j \in 1..3 : IsFinite(out[i][j]) /\ out[i][j].n >= 0
        /\ WithinTolerance(Sub(Add(Add(out[i][1], out[i][2]), out[i][3]), One))

(* C7: closure returns null for a point exactly when the point does not     *)
(* consist of 3 finite numbers (wrong arity, NaN or an infinite component); *)
(* a negative component alone does not give null, the point is divided by   *)
(* its sum.                                                                 *)
C7_ClosureSentinel ==
  op = "close" =>
    \A i \in 1..Len(P) :
      /\ (out[i] = Null) <=> InvalidElement(P[i])
      /\ ~InvalidElement(P[i]) =>
           LET sum == Add(Add(P[i][1], P[i][2]), P[i][3])
           IN  out[i] = <<Div(P[i][1], sum), Div(P[i][2], sum), Div(P[i][3], sum)>>

\* The part of C7 the code satisfies: null exactly for the wrong arity and
\* for a NaN or non-number component
C7_ClosureSentinelNaN ==
  op = "close" =>
    \A i \in 1..Len(P) :
      (out[i] = Null) <=>
        (Len(P[i]) # 3 \/ \E j \in 1..Len(P[i]) : ~IsNumber(P[i][j]) \/ IsNaN(P[i][j]))

\* The breaks value colorMap works with, after the default was applied
EffectiveBreaks == Default(breaks, Num(DefaultBreaks))

\* breaks is a finite number strictly less than 100
FiniteBelow100(b) == b.d > 0 /\ b.n < 100 * b.d

(* C8: colorMap replaces each closed point by its nearest centroid of       *)
(* meshCentroids(breaks) if and only if breaks is a finite number strictly  *)
(* less than 100; for 100, more than 100, +Infinity or a non-number the     *)
(* closed points reach the recentring step unchanged.                       *)
C8_DiscretizeIffBelow100 ==
  op = "tricolore" =>
    IF FiniteBelow100(EffectiveBreaks)
    THEN closed = ternaryNearest(close(P), centroidPoints(EffectiveBreaks.n))
    ELSE closed = close(P)

\* A composition that is not a centroid of any mesh passed through
\* unchanged with breaks = 100
C8_Witness ==
  /\ op = "tricolore"
  /\ breaks = Num(100)
  /\ P = <<T(2, 1, 1)>>
  /\ closed = <<closePoint(T(2, 1, 1))>>
  /\ out[1].rgb # NullRgb

\* The orientation of the triangle (u, v, w) in the coordinates (p1, p2)
Orient(u, v, w) ==
  Sub(Mul(Sub(v[1], u[1]), Sub(w[2], u[2])), Mul(Sub(v[2], u[2]), Sub(w[1], u[1]))).n

\* The corners of every cell of the mesh of k rows, from ternaryMeshVertices
CellCorners(k) ==
  LET vs       == ternaryMeshVertices(ternaryMeshCentroids(k))
      point(r) == <<r.p1, r.p2, r.p3>>
  IN  [id \in 1..(k * k) |->
         <<point(vs[3 * id - 2]), point(vs[3 * id - 1]), point(vs[3 * id])>>]

\* p lies strictly inside the triangle t
StrictlyInside(p, t) ==
  LET o1 == Orient(t[1], t[2], p)
      o2 == Orient(t[2], t[3], p)
      o3 == Orient(t[3], t[1], p)
  IN  (o1 > 0 /\ o2 > 0 /\ o3 > 0) \/ (o1 < 0 /\ o2 < 0 /\ o3 < 0)

IntegerBreaks(b) == b.d = 1 /\ 1 <= b.n /\ b.n < 100

(* C9: in discrete mode (integer breaks k, 1 <= k < 100) two valid          *)
(* compositions strictly inside the same mesh cell are assigned that cell's *)
(* centroid and receive identical h, c, l and rgb, for any center, hue,     *)
(* chroma, lightness, contrast and spread.                                  *)
C9_SameCellSameColour ==
  (op = "tricolore" /\ IntegerBreaks(EffectiveBreaks)) =>
    LET k     == EffectiveBreaks.n
        cells == CellCorners(k)
        cents == centroidPoints(k)
    IN  \A id \in 1..(k * k) :
          LET cell      == cells[id]
              inside(e) == OnSimplex(e) /\ StrictlyInside(closePoint(e), cell)
          IN  \A i \in 1..Len(P) :
                inside(P[i]) =>
                  /\ closed[i] = cents[id]
                  /\ \A j \in 1..Len(P) :
                       inside(P[j]) =>
                         /\ out[i].h = out[j].h
                         /\ out[i].c = out[j].c
                         /\ out[i].l = out[j].l
                         /\ out[i].rgb = out[j].rgb

\* Two different compositions strictly inside the same cell of the mesh of
\* 3 rows were mapped
C9_Witness ==
  /\ op = "tricolore"
  /\ breaks = Num(3)
  /\ Len(P) = 2
  /\ P[1] # P[2]
  /\ \E id \in 1..9 :
       /\ StrictlyInside(closePoint(P[1]), CellCorners(3)[id])
       /\ StrictlyInside(closePoint(P[2]), CellCorners(3)[id])
       /\ closed[1] # closePoint(P[1])
  /\ out[1].rgb = out[2].rgb
  /\ out[1].rgb # NullRgb

(* C10: for every valid input element the p1, p2, p3 of its colorMap result *)
(* are the closure of the raw input, whatever breaks, center and spread,    *)
(* never the discretized, recentred or power-scaled components.             *)
C10_ReportsClosure ==
  op = "tricolore" =>
    \A i \in 1..Len(P) :
      ValidComposition(P[i]) =>
        <<out[i].p1, out[i].p2, out[i].p3>> = closePoint(P[i])

\* The part of C10 the code satisfies: valid compositions with a positive sum
C10_ReportsClosureOfPositiveSum ==
  op = "tricolore" =>
    \A i \in 1..Len(P) :
      OnSimplex(P[i]) => <<out[i].p1, out[i].p2, out[i].p3>> = closePoint(P[i])

\* The components P[i][0], P[i][1], P[i][2] of a raw input element
RawTriple(e) == <<RawAt(e, 1), RawAt(e, 2), RawAt(e, 3)>>

Reported(r) == <<r.p1, r.p2, r.p3>>

(* C11 as stated: every result record of colorMap and sextantColorMap holds *)
(* in p1, p2, p3 the original, unclosed components of its input element,    *)
(* for valid and invalid elements alike ((2,1,1) is reported as 2, 1, 1).   *)
C11_ReportsOriginal ==
  (op \in {"tricolore", "sextant"} /\ err = "") =>
    \A i \in 1..Len(P) : Reported(out[i]) = RawTriple(P[i])

(* C11 amended: p1, p2, p3 are the components of the closure of the input   *)
(* ((2,1,1) is reported as 1/2, 1/4, 1/4) for every colorMap result that    *)
(* has a colour and every sextantColorMap result whose element has a        *)
(* closure; the original components are reported for the colorMap results   *)
(* whose colour fields are null and for the sextantColorMap results of      *)
(* elements that closure maps to the sentinel.                              *)
C11_ReportsClosureOrOriginal ==
  /\ op = "tricolore" =>
       \A i \in 1..Len(P) :
         Reported(out[i]) = IF out[i].rgb = NullRgb THEN RawTriple(P[i])
                            ELSE closePoint(P[i])
  /\ (op = "sextant" /\ err = "") =>
       \A i \in 1..Len(P) :
         Reported(out[i]) = IF closePoint(P[i]) = Null THEN RawTriple(P[i])
                            ELSE closePoint(P[i])

\* The unclosed composition (2,1,1) and an element with a NaN component
\* were mapped by colorMap in one batch
C11_Witness ==
  /\ op = "tricolore"
  /\ P = <<T(2, 1, 1), <<NaN, One, One>>>>
  /\ Reported(out[1]) = <<Rat(1, 2), Rat(1, 4), Rat(1, 4)>>
  /\ Reported(out[2]) = <<NaN, One, One>>
  /\ out[1].rgb # NullRgb

(* C12: with contrast = 0 the lightness l reported by colorMap equals the   *)
(* lightness parameter for every valid composition, whatever the           *)
(* composition, center, breaks, hue, chroma and spread.                     *)
C12_ContrastZeroLightness ==
  (op = "tricolore" /\ contrast = Zero) =>
    \A i \in 1..Len(P) :
      ValidComposition(P[i]) => out[i].l = Plain(lightness)

\* The part of C12 the code satisfies: compositions with a positive sum and
\* a maximum chroma other than 0
C12_ContrastZeroPositive ==
  (op = "tricolore" /\ contrast = Zero /\ chroma # Zero) =>
    \A i \in 1..Len(P) :
      OnSimplex(P[i]) => out[i].l = Plain(lightness)

\* Three finite, strictly positive components
StrictlyPositive(c) == Len(c) = 3 /\ \A j \in 1..3 : IsFinite(c[j]) /\ c[j].n > 0

\* The call maps the composition equal to center
MapsCenter == op = "tricolore" /\ P = <<center>> /\ StrictlyPositive(center)

\* Every option other than center has its default value
OtherDefaults ==
  /\ EffectiveBreaks = Num(DefaultBreaks)
  /\ DefaultColours
  /\ spread = Num(DefaultSpread)

\* The mixed chroma sqrt(z.re^2 + z.im^2) of the result is 0: the hue is
\* atan2(0, 0) = 0, the reported chroma is 0 and the lightness is
\* (1 - contrast) * lightness
MixedChromaZero(r) ==
  /\ r.c = Plain(Zero)
  /\ r.l = Plain(Mul(Sub(One, contrast), lightness))
  /\ r.h = [k |-> "deg", hue |-> Zero, a |-> One, b |-> Zero]

(* C13 as stated: for any center with strictly positive components, mapping *)
(* the composition equal to center with every other parameter at its       *)
(* default (breaks = 4) yields mixed chroma 0.                              *)
C13_CenterNeutralByDefault ==
  (MapsCenter /\ OtherDefaults) => MixedChromaZero(out[1])

(* C13 amended: with every other parameter at its default the composition   *)
(* equal to center yields mixed chroma 0 if and only if the closure of      *)
(* center is a centroid of the mesh of 4 rows, as (1/3,1/3,1/3) is; for     *)
(* every other center the nearest centroid is recentred instead and the     *)
(* mixed chroma is not 0.                                                   *)
C13_CenterNeutralIffCentroid ==
  (MapsCenter /\ OtherDefaults) =>
    LET cents == centroidPoints(DefaultBreaks)
        isCentroid == \E id \in 1..Len(cents) : cents[id] = closePoint(center)
    IN  /\ MixedChromaZero(out[1]) <=> isCentroid
        /\ ~isCentroid => (out[1].c.b # Zero \/ Gt(out[1].c.a, Zero))

\* The center (7/12,1/3,1/12), a centroid of the mesh of 4 rows other than
\* the default center, was mapped with the defaults to mixed chroma 0
C13_Witness ==
  /\ MapsCenter
  /\ OtherDefaults
  /\ center = <<Rat(7, 12), Rat(1, 3), Rat(1, 12)>>
  /\ closed = <<center>>
  /\ MixedChromaZero(out[1])

(* C14: in continuous mode (breaks not finite or >= 100), for any center    *)
(* with strictly positive components and any spread, the composition equal  *)
(* to center is recentred to (1/3,1/3,1/3): its mixed chroma is 0 and its   *)
(* lightness is (1 - contrast) * lightness.                                 *)
C14_CenterNeutralContinuous ==
  (MapsCenter /\ ~FiniteBelow100(EffectiveBreaks)) =>
    /\ closed = <<closePoint(center)>>
    /\ MixedChromaZero(out[1])

\* An unclosed center with three different components was mapped in
\* continuous mode with spread 2
C14_Witness ==
  /\ MapsCenter
  /\ breaks = PosInf
  /\ center = T(1, 2, 3)
  /\ spread = Num(2)
  /\ contrast = DefaultContrast
  /\ out[1].l = Plain(Num(48))
  /\ out[1].c = Plain(Zero)

(* C15: for every integer k >= 1 meshCentroids(k) returns exactly k^2       *)
(* centroids with the ids 1..k^2 in ascending order, pairwise distinct, and *)
(* nearestOf applied to these centroids with the same centroids as          *)
(* candidates returns each centroid unchanged.                              *)
C15_MeshCentroids ==
  /\ op = "centroids" =>
       LET K == breaks.n * breaks.n
       IN  /\ Len(out) = K
           /\ \A id \in 1..K : out[id].id = id
           /\ \A a \in 1..K : \A b \in (a + 1)..K :
                <<out[a].p1, out[a].p2, out[a].p3>> # <<out[b].p1, out[b].p2, out[b].p3>>
  /\ (op = "nearest" /\ breaks # Undef /\ P = centroidPoints(breaks.n)
        /\ candidates = P) =>
       out = P

\* The 16 centroids of the mesh of 4 rows were matched against themselves
C15_Witness ==
  /\ op = "nearest"
  /\ breaks = Num(4)
  /\ Len(candidates) = 16
  /\ Len(out) = 16
  /\ out = candidates

\* The triple q is the closure of the triple w: it sums to 1 and is
\* proportional to w
IsClosureOf(q, w) ==
  /\ Add(Add(q[1], q[2]), q[3]) = One
  /\ \A j \in 1..3 : \A m \in 1..3 : Mul(q[j], w[m]) = Mul(q[m], w[j])

(* C16 as stated: perturb(points, referenceVector) multiplies each point    *)
(* component-wise by the reciprocals of referenceVector's components and    *)
(* re-closes, so that a point equal to referenceVector (strictly positive)  *)
(* yields (1/3,1/3,1/3); sentinel entries are returned as the sentinel.     *)
C16_PerturbeByReciprocals ==
  op = "perturbe" =>
    /\ Len(out) = Len(P)
    /\ \A i \in 1..Len(P) :
         IF P[i] = Null THEN out[i] = Null
         ELSE /\ IsClosureOf(out[i], <<Div(P[i][1], center[1]), Div(P[i][2], center[2]),
                                       Div(P[i][3], center[3])>>)
              /\ P[i] = center => out[i] = Thirds

(* C16 amended: perturb(points, referenceVector) multiplies each point      *)
(* component-wise by referenceVector's components themselves and re-closes; *)
(* a point perturbed by the reciprocals of its own strictly positive        *)
(* components (what colorMap passes for its center) yields (1/3,1/3,1/3),   *)
(* and a point equal to referenceVector yields the closure of its squared   *)
(* components; sentinel entries are returned as the sentinel.               *)
C16_PerturbeByVector ==
  op = "perturbe" =>
    /\ Len(out) = Len(P)
    /\ \A i \in 1..Len(P) :
         IF P[i] = Null THEN out[i] = Null
         ELSE /\ IsClosureOf(out[i], <<Mul(P[i][1], center[1]), Mul(P[i][2], center[2]),
                                       Mul(P[i][3], center[3])>>)
              /\ (\A j \in 1..3 : Mul(P[i][j], center[j]) = One) => out[i] = Thirds
              /\ P[i] = center =>
                   IsClosureOf(out[i], <<Pow(center[1], 2), Pow(center[2], 2),
                                         Pow(center[3], 2)>>)

\* The point (1/2,1/4,1/4) was perturbed by its reciprocals (2,4,4), next
\* to a sentinel entry
C16_Witness ==
  /\ op = "perturbe"
  /\ P = <<Null, <<Rat(1, 2), Rat(1, 4), Rat(1, 4)>>>>
  /\ center = T(2, 4, 4)
  /\ out = <<Null, Thirds>>

\* The sum of the entry differs from 1 by more than 1e-9 (no comparison
\* with a NaN sum is true)
DeviatesFromOne(p) ==
  LET d == Sub(Add(Add(p[1], p[2]), p[3]), One)
  IN  ~IsNaN(d) /\ ~WithinTolerance(d)

\* A non-sentinel entry that validate must reject
Offending(p) ==
  /\ p # Null
  /\ \/ Len(p) # 3
     \/ \E j \in 1..3 : p[j].n < 0
     \/ DeviatesFromOne(p)

C17_WitnessFirst ==
  /\ op = "validate"
  /\ P = <<T(-1, 1, 0), <<One, One>>>>
  /\ err = NegativeError

(* C18: toCartesian gives x = p3 + p2/2 and y = (sqrt(3)/2) * p2, and for   *)
(* every point p with p1 + p2 + p3 = 1, fromCartesian(toCartesian(p)) is p. *)
C18_CartesianRoundTrip ==
  /\ op = "toCartesian" =>
       /\ out[1] = Plain(Add(P[1][3], Div(P[1][2], Num(2))))
       /\ out[2] = Surd(Zero, Div(P[1][2], Num(2)), Num(3))
  /\ (op = "fromCartesian" /\ Add(Add(P[1][1], P[1][2]), P[1][3]) = One) =>
       out = <<Plain(P[1][1]), Plain(P[1][2]), Plain(P[1][3])>>

\* The point (1/8, 1/4, 5/8) went to cartesian coordinates with an
\* irrational y and came back
C18_Witness ==
  /\ op = "fromCartesian"
  /\ P = << <<Rat(1, 8), Rat(1, 4), Rat(5, 8)>> >>
  /\ out = <<Plain(Rat(1, 8)), Plain(Rat(1, 4)), Plain(Rat(5, 8))>>

\* A point off the plane p1 + p2 + p3 = 1 does not come back
C18_OffPlaneLost ==
  /\ op = "fromCartesian"
  /\ P = <<T(2, 1, 1)>>
  /\ out = <<Plain(Num(-1)), Plain(One), Plain(One)>>

\* v is the least (greatest) of the j-th components of the dataset P
IsMinOf(v, j) ==
  /\ \E i \in 1..Len(P) : P[i][j] = v
  /\ \A i \in 1..Len(P) : ~Lt(P[i][j], v)

IsMaxOf(v, j) ==
  /\ \E i \in 1..Len(P) : P[i][j] = v
  /\ \A i \in 1..Len(P) : ~Gt(P[i][j], v)

(* C19: for any non-empty dataset of compositions (triples of non-negative  *)
(* numbers, closed or not), limits returns as lower the component-wise      *)
(* minimum and as upper the component-wise maximum over the dataset.        *)
C19_LimitsMinMax ==
  (op = "limits" /\ Len(P) >= 1) =>
    \A j \in 1..3 : IsMinOf(out[1][j], j) /\ IsMaxOf(out[2][j], j)

\* What the code satisfies: the upper limit is the component-wise maximum,
\* and the lower limit is the component-wise minimum capped at 1
C19_LimitsCappedAtOne ==
  (op = "limits" /\ Len(P) >= 1) =>
    \A j \in 1..3 :
      /\ IsMaxOf(out[2][j], j)
      /\ \/ IsMinOf(out[1][j], j)
         \/ out[1][j] = One /\ \A i \in 1..Len(P) : Gt(P[i][j], One)

\* The dataset of the single composition (2, 1, 1) got the lower limit
\* (1, 1, 1)
C19_LowerCapped ==
  /\ op = "limits"
  /\ P = <<T(2, 1, 1)>>
  /\ out = <<T(1, 1, 1), T(2, 1, 1)>>

(* C20: nearestOf returns, for each non-sentinel point, the candidate with  *)
(* the minimal ternaryDistance, and among several candidates at the same    *)
(* minimal distance the one that comes first in the candidates sequence; a  *)
(* sentinel input gives a sentinel output at the same position.             *)
C20_NearestFirstMinimum ==
  op = "nearest" =>
    /\ Len(out) = Len(P)
    /\ \A i \in 1..Len(P) :
         IF P[i] = Null THEN out[i] = Null
         ELSE LET d == <<P[i]>>
                  dist(n) == ternaryDistanceTo(d[1], candidates[n])
              IN  \E n \in 1..Len(candidates) :
                    /\ out[i] = candidates[n]
                    /\ \A m \in 1..Len(candidates) : ~Lt(dist(m), dist(n))
                    /\ \A m \in 1..(n - 1) : Gt(dist(m), dist(n))

\* The midpoint of an edge is at the same distance from its two corners
\* and got the corner listed first, after a sentinel that stayed a sentinel
C20_Witness ==
  /\ op = "nearest"
  /\ P = <<Null, <<Rat(1, 2), Rat(1, 2), Zero>>>>
  /\ candidates = <<T(0, 1, 0), T(1, 0, 0)>>
  /\ ternaryDistanceTo(P[2], candidates[1]) = ternaryDistanceTo(P[2], candidates[2])
  /\ out = <<Null, T(0, 1, 0)>>

\* A point on the edge shared by two cells of the 2-mesh got the centroid
\* listed first
C20_WitnessMesh ==
  /\ op = "nearest"
  /\ candidates = centroidPoints(2)
  /\ \E i \in 1..Len(P) : \E n, m \in 1..Len(candidates) :
       /\ P[i] # Null
       /\ n < m
       /\ candidates[n] # candidates[m]
       /\ ternaryDistanceTo(P[i], candidates[n]) = ternaryDistanceTo(P[i], candidates[m])
       /\ out[i] = candidates[n]

\* The lattice point (a/k, b/k, c/k)
LatticePoint(a, b, c, k) == <<Rat(a, k), Rat(b, k), Rat(c, k)>>

\* The lattice points with non-negative integers a + b + c = k
LatticePoints(k) ==
  { LatticePoint(ab[1], ab[2], k - ab[1] - ab[2], k) :
      ab \in { x \in (0..k) \X (0..k) : x[1] + x[2] <= k } }

\* The triangles of side 1/k of the lattice, as sets of three corners: those
\* pointing to the corners of the simplex and those pointing away; together
\* they cover the simplex with disjoint interiors
UnitTriangles(k) ==
  { { LatticePoint(ab[1] + 1, ab[2], k - 1 - ab[1] - ab[2], k),
      LatticePoint(ab[1], ab[2] + 1, k - 1 - ab[1] - ab[2], k),
      LatticePoint(ab[1], ab[2], k - ab[1] - ab[2], k) } :
      ab \in { x \in (0..k) \X (0..k) : x[1] + x[2] <= k - 1 } }
  \cup
  { { LatticePoint(ab[1] - 1, ab[2], k + 1 - ab[1] - ab[2], k),
      LatticePoint(ab[1], ab[2] - 1, k + 1 - ab[1] - ab[2], k),
      LatticePoint(ab[1], ab[2], k - ab[1] - ab[2], k) } :
      ab \in { x \in (1..k) \X (1..k) : x[1] + x[2] <= k } }

Cross(u, v, w) ==
  Sub(Mul(Sub(v[1], u[1]), Sub(w[2], u[2])), Mul(Sub(v[2], u[2]), Sub(w[1], u[1])))

\* A closed point of the simplex, and one with no zero component
InSimplex(p) ==
  /\ Len(p) = 3
  /\ \A j \in 1..3 : IsFinite(p[j]) /\ p[j].n >= 0
  /\ Add(Add(p[1], p[2]), p[3]) = One

StrictlyInSimplex(p) == InSimplex(p) /\ \A j \in 1..3 : p[j].n > 0

\* The vertex records with id s among vs, in the order of vs
RecordsOf(vs, s) == SelectSeq(vs, LAMBDA r : r.id = s)

\* The corners of the polygon with id s: its records without the last one,
\* which closes the outline
CornersOf(vs, s) ==
  LET rs == RecordsOf(vs, s)
  IN  [n \in 1..(Len(rs) - 1) |-> <<rs[n].p1, rs[n].p2, rs[n].p3>>]

\* The corner after corner n on the outline q
NextCorner(q, n) == q[(n % Len(q)) + 1]

\* q is a strictly convex polygon listed in the orientation of the simplex
ConvexPolygon(q) ==
  /\ Len(q) >= 3
  /\ \A n \in 1..Len(q) :
       Cross(q[n], NextCorner(q, n), NextCorner(q, n + 1)).n > 0

\* p lies inside or on the outline of the convex polygon q
InsideOrOn(p, q) == \A n \in 1..Len(q) : Cross(q[n], NextCorner(q, n), p).n >= 0

\* An edge of q has the whole of r on its outer side
SeparatedByEdgeOf(q, r) ==
  \E n \in 1..Len(q) : \A m \in 1..Len(r) : Cross(q[n], NextCorner(q, n), r[m]).n <= 0

\* Two convex polygons have no interior point in common exactly when an edge
\* of one of them separates them
DisjointInteriors(q, r) == SeparatedByEdgeOf(q, r) \/ SeparatedByEdgeOf(r, q)

\* Twice the area of a convex polygon of 3 or 4 corners
TwiceArea(q) ==
  IF Len(q) = 3 THEN Cross(q[1], q[2], q[3])
  ELSE Add(Cross(q[1], q[2], q[3]), Cross(q[1], q[3], q[4]))

(* C22: for any center strictly inside the simplex sextantVertices returns  *)
(* six polygons with ids 1..6, of 5 vertex records for the ids 1, 3, 5 and  *)
(* 4 for the ids 2, 4, 6, numbered from 1, each starting and ending at the  *)
(* center; the polygons are convex, lie in the simplex, have pairwise       *)
(* disjoint interiors and their areas add up to the area of the simplex:    *)
(* they tile it without gap or overlap.                                     *)
C22_SextantsTile ==
  (op = "sextantVertices" /\ StrictlyInSimplex(center)) =>
    LET polygons == [s \in 1..6 |-> CornersOf(out, s)]
    IN  /\ Len(out) = 27
        /\ \A n \in 1..(Len(out) - 1) : out[n].id <= out[n + 1].id
        /\ \A s \in 1..6 :
             LET rs == RecordsOf(out, s)
             IN  /\ Len(rs) = (IF s % 2 = 1 THEN 5 ELSE 4)
                 /\ \A n \in 1..Len(rs) : rs[n].vertex = n
                 /\ <<rs[1].p1, rs[1].p2, rs[1].p3>> = center
                 /\ <<rs[Len(rs)].p1, rs[Len(rs)].p2, rs[Len(rs)].p3>> = center
                 /\ ConvexPolygon(polygons[s])
                 /\ \A n \in 1..Len(polygons[s]) : InSimplex(polygons[s][n])
        /\ \A s \in 1..6 : \A t \in (s + 1)..6 : DisjointInteriors(polygons[s], polygons[t])
        /\ Add(Add(Add(TwiceArea(polygons[1]), TwiceArea(polygons[2])),
                   Add(TwiceArea(polygons[3]), TwiceArea(polygons[4]))),
               Add(TwiceArea(polygons[5]), TwiceArea(polygons[6]))) = One

\* The legend of the center (1/4, 1/4, 1/2): sextant 1 reaches the corner
\* (1, 0, 0) and sextant 2 is the triangle on the edge p3 = 0
C22_Witness ==
  /\ op = "sextantVertices"
  /\ center = <<Rat(1, 4), Rat(1, 4), Rat(1, 2)>>
  /\ Len(out) = 27
  /\ <<out[3].p1, out[3].p2, out[3].p3>> = T(1, 0, 0)
  /\ out[7].id = 2 /\ out[7].p3 = Zero /\ out[8].p3 = Zero

(* C23: for any closed point p and any closed center c strictly inside the  *)
(* simplex, if classifySextant(p, c) returns the id s then p lies inside or *)
(* on the boundary of the polygon with id s of sextantVertices(c); and the  *)
(* classification is the absence-sentinel only when p equals c.             *)
C23_ClassifiedInOwnSextant ==
  (op = "classify" /\ StrictlyInSimplex(center)) =>
    LET vs == ternarySextantVertices(center)
    IN  /\ Len(out) = Len(P)
        /\ \A i \in 1..Len(P) :
             InSimplex(P[i]) =>
               /\ out[i] \in 0..6
               /\ out[i] = 0 => P[i] = center
               /\ out[i] # 0 => InsideOrOn(P[i], CornersOf(vs, out[i]))

\* A point on the line p2 = c2 between the sextants 1 and 2 was classified
\* into sextant 1
C23_Witness ==
  /\ op = "classify"
  /\ center = <<Rat(1, 4), Rat(1, 4), Rat(1, 2)>>
  /\ P = << <<Rat(1, 2), Rat(1, 4), Rat(1, 4)>> >>
  /\ out = <<1>>

\* The center itself was classified as the absence-sentinel
C23_WitnessCenter ==
  /\ op = "classify"
  /\ StrictlyInSimplex(center)
  /\ P = <<center>>
  /\ out = <<0>>

ComponentSum(p) == Add(Add(p[1], p[2]), p[3])

\* The squared Euclidean distance of p and c
SquaredEuclidean(p, c) ==
  Add(Add(Pow(Sub(p[1], c[1]), 2), Pow(Sub(p[2], c[2]), 2)), Pow(Sub(p[3], c[3]), 2))

(* C24: for a point p and a candidate c whose components have the same sum  *)
(* ternaryDistance(p, [c]) is half the squared Euclidean distance of p and  *)
(* c; it is never negative, is 0 only when p = c, and ranks two such        *)
(* candidates in the same order as the Euclidean distance.                  *)
C24_DistanceIsHalfSquaredEuclidean ==
  op = "distance" =>
    LET p       == P[1]
        same(n) == ComponentSum(candidates[n]) = ComponentSum(p)
    IN  /\ Len(out) = Len(candidates)
        /\ \A n \in 1..Len(candidates) :
             same(n) =>
               /\ out[n] = Div(SquaredEuclidean(p, candidates[n]), Num(2))
               /\ ~Lt(out[n], Zero)
               /\ out[n] = Zero => p = candidates[n]
               /\ \A m \in 1..Len(candidates) :
                    same(m) =>
                      (Lt(out[n], out[m]) <=>
                         Lt(SquaredEuclidean(p, candidates[n]), SquaredEuclidean(p, candidates[m])))

\* Two unclosed compositions of sum 4 are at distance 1, and each is at
\* distance 0 from itself
C24_Witness ==
  /\ op = "distance"
  /\ P = <<T(2, 1, 1)>>
  /\ candidates = <<T(1, 1, 2), T(2, 1, 1)>>
  /\ out = <<One, Zero>>

\* With different component sums the value can be negative
C24_DifferentSumsNegative ==
  /\ op = "distance"
  /\ P = <<T(2, 1, 1)>>
  /\ candidates[1] = T(0, 0, 0)
  /\ out[1] = Num(-5)

====
